---- MODULE Spec2Model ----
(***************************************************************************)
(* A model of kanji-net (kn-core and the kin command line): the phonetic   *)
(* classifier of utils.rs, the graph builder DB::new, the recursive graph  *)
(* queries all_children / all_parents / filtered_graph, write_db and       *)
(* open_db, the rendering of dot_custom / with_groups, and the commands    *)
(* new_entry and graph_dot of main.rs.                                     *)
(*                                                                         *)
(* A Kanji is a natural number (its code point; only the order and the     *)
(* identity of a Kanji matter).  A kana character is a string holding its  *)
(* romanisation ("ko" is hiragana KO, "go" its voiced form); upper case    *)
(* stands for the katakana of the same sound and "xyo" for the small YO.   *)
(* A reading (a Rust String) is the sequence of its characters.            *)
(***************************************************************************)
EXTENDS Integers, Sequences, FiniteSets, TLC

VARIABLES
    entries,    \* DB.entries: Kanji -> Entry
    index,      \* DB.index: Kanji -> node index
    graph,      \* DB.graph: [nodes: Seq(Kanji), edges: Seq(edge)]
    built,      \* TRUE once DB::new has run on `entries`
    query,      \* the query that was asked: [fn, arg, ks]
    stack,      \* the call stack of the running query, innermost frame last
    status,     \* "idle" | "running" | "returned" | "overflow"
    result,     \* the value the finished query returned
    file,       \* the content of the data file, a sequence of JSON tokens
    wrote,      \* the write_db calls so far: how many, and the entries of the last
    call,       \* the last call on the data file and its Result: [fn, res, db, arg]
    dot,        \* the String dot_custom returned: the sequence of its lines
    proc,       \* graph_dot and the process it spawns: [pc, ret, handle, sent, pipe, child]
    input,      \* the two readings handed to the classifier
    output      \* what the classifier answered

vars == <<entries, index, graph, built, query, stack, status, result, file, wrote, call, dot, proc, input, output>>

(***************************************************************************)
(* Bounds of the model.                                                    *)
(***************************************************************************)
\* Readings handed to the classifier have at most this many characters.
MaxLen == 2
\* An entry of the parent/child stores has at most this many onyomi.
MaxYomi == 2
\* The stores the queries run on: kanji 1..NumKanji, at most MaxOya parents
\* per entry and at most MaxRefs parent references in the whole store.
NumKanji == 3
MaxOya == 2
MaxRefs == 3
\* filtered_graph is asked for at most this many kanji.
MaxKs == 2
\* The stores written to the data file hold the kanji 1..FileKanji, and
\* write_db is called at most MaxWrites times.
FileKanji == 2
MaxWrites == 2
\* The data files `kin new` starts from hold stores with at most
\* MaxEntryRefs parent references.
MaxEntryRefs == 1
\* The stores that are rendered hold the kanji 1..DotKanji.
DotKanji == 3
\* The pipe to the child process holds at most PipeCap lines.
PipeCap == 2
\* The number of frames the call stack holds before the process dies of a
\* stack overflow.
StackLimit == 8

None == "None"

Min(x, y) == IF x <= y THEN x ELSE y

Range(s) == {s[i] : i \in 1..Len(s)}

\* All sequences over S of length at most n.
SeqsUpTo(S, n) == UNION {[1..m -> S] : m \in 0..n}

(***************************************************************************)
(* utils.rs: the phonetic classifier.                                      *)
(***************************************************************************)

\* a.chars().zip(b.chars()): the pairs of characters, as long as both last.
Zip(a, b) == [i \in 1..Min(Len(a), Len(b)) |-> <<a[i], b[i]>>]

voiced_char(c) ==
    CASE c = "ka" -> "ga" [] c = "ki" -> "gi" [] c = "ku" -> "gu"
      [] c = "ke" -> "ge" [] c = "ko" -> "go"
      [] c = "ga" -> "ka" [] c = "gi" -> "ki" [] c = "gu" -> "ku"
      [] c = "ge" -> "ke" [] c = "go" -> "ko"
      [] c = "sa" -> "za" [] c = "si" -> "zi" [] c = "su" -> "zu"
      [] c = "se" -> "ze" [] c = "so" -> "zo"
      [] c = "za" -> "sa" [] c = "zi" -> "si" [] c = "zu" -> "su"
      [] c = "ze" -> "se" [] c = "zo" -> "so"
      [] c = "ta" -> "da" [] c = "ti" -> "di" [] c = "tu" -> "du"
      [] c = "te" -> "de" [] c = "to" -> "do"
      [] c = "da" -> "ta" [] c = "di" -> "ti" [] c = "du" -> "tu"
      [] c = "de" -> "te" [] c = "do" -> "to"
      [] OTHER -> None

is_voiced_pair(a, b) ==
    LET chars == Zip(a, b) IN
    /\ IF Len(chars) = 0
       THEN FALSE
       ELSE IF voiced_char(chars[1][1]) = None
            THEN FALSE
            ELSE voiced_char(chars[1][1]) = chars[1][2]
    /\ \A i \in 2..Len(chars) : chars[i][1] = chars[i][2]

vowel(c) ==
    CASE c \in {"a", "ka", "sa", "ta", "na", "ha", "ma", "ya", "ra", "wa"} -> "a"
      [] c \in {"ga", "za", "da", "ba", "pa"} -> "a"
      [] c \in {"i", "ki", "si", "ti", "ni", "hi", "mi", "ri"} -> "i"
      [] c \in {"gi", "zi", "di", "bi", "pi"} -> "i"
      [] c \in {"u", "ku", "su", "tu", "nu", "hu", "mu", "yu", "ru"} -> "u"
      [] c \in {"gu", "zu", "du", "bu", "pu"} -> "u"
      [] c \in {"e", "ke", "se", "te", "ne", "he", "me", "re"} -> "e"
      [] c \in {"ge", "ze", "de", "be", "pe"} -> "e"
      [] c \in {"o", "ko", "so", "to", "no", "ho", "mo", "yo", "ro"} -> "o"
      [] c \in {"go", "zo", "do", "bo", "po"} -> "o"
      [] OTHER -> None

is_rhyme(a, b) ==
    LET chars == Zip(a, b) IN
    /\ IF Len(chars) = 0
       THEN FALSE
       ELSE vowel(chars[1][1]) = vowel(chars[1][2])
    /\ \A i \in 2..Len(chars) : chars[i][1] = chars[i][2]

(***************************************************************************)
(* The classifier on its own: any two readings over a small alphabet that  *)
(* holds an unvoiced/voiced pair (ko, go), a rhyme of them (yo), a kana of *)
(* another vowel (ku) and two katakana, which neither table knows (GA, DA).*)
(***************************************************************************)
Kana == {"ko", "go", "yo", "ku", "GA", "DA"}

Readings == SeqsUpTo(Kana, MaxLen)

NoDB ==
    /\ entries = <<>>
    /\ index = <<>>
    /\ graph = [nodes |-> <<>>, edges |-> <<>>]
    /\ built = FALSE

NoQuery ==
    /\ query = [fn |-> "none", arg |-> 0, ks |-> <<>>]
    /\ stack = <<>>
    /\ status = "idle"
    /\ result = {}

NoFile ==
    /\ file = <<>>
    /\ wrote = [n |-> 0, entries |-> <<>>]

\* The DB that holds nothing.
EmptyDB == [entries |-> <<>>, index |-> <<>>, graph |-> [nodes |-> <<>>, edges |-> <<>>]]

\* struct Entry.
Entry(k, oya, onyomi) ==
    [kanji |-> k, oya |-> oya, kakushi_oya |-> <<>>, onyomi |-> onyomi, daihyou |-> <<>>]

\* What kanji_prompt returned: an Entry, or an error.  NoPrompt is the
\* error, and stands where nothing was prompted for.
NoPrompt == [ok |-> FALSE, entry |-> Entry(0, <<>>, <<>>)]

\* The call fn that returned res: a DB when open_db returned Ok, and for
\* new_entry the answer of the prompt.
Called(fn, res, db, arg) == [fn |-> fn, res |-> res, db |-> db, arg |-> arg]

NoCall == call = Called("none", "none", EmptyDB, NoPrompt)

NoDot == dot = <<>>

\* graph_dot was called and nothing of it has run: there is no child
\* process and no pipe.
NoProc ==
    proc = [pc |-> "open_db", ret |-> "none", handle |-> "none", sent |-> 0, pipe |-> 0,
            child |-> "none"]

InitUtils ==
    /\ input \in Readings \X Readings
    /\ output = [fn |-> "none", val |-> FALSE]
    /\ NoDB /\ NoQuery /\ NoFile /\ NoCall /\ NoDot /\ NoProc

CallIsVoicedPair ==
    /\ output.fn = "none"
    /\ output' = [fn |-> "is_voiced_pair", val |-> is_voiced_pair(input[1], input[2])]
    /\ UNCHANGED <<entries, index, graph, built, query, stack, status, result, file, wrote, call, dot, proc, input>>

CallIsRhyme ==
    /\ output.fn = "none"
    /\ output' = [fn |-> "is_rhyme", val |-> is_rhyme(input[1], input[2])]
    /\ UNCHANGED <<entries, index, graph, built, query, stack, status, result, file, wrote, call, dot, proc, input>>

NextUtils == CallIsVoicedPair \/ CallIsRhyme

SpecUtils == InitUtils /\ [][NextUtils]_vars

(***************************************************************************)
(* C8: is_voiced_pair(a, b) is true iff the first characters of a and b    *)
(* are a voiced/unvoiced pair of the table and all remaining characters of *)
(* a and b are identical, character for character; so it is false when one *)
(* reading is longer than the other, for an empty reading, and for a first *)
(* character outside the table.                                            *)
(***************************************************************************)
Rest(s) == SubSeq(s, 2, Len(s))

VoicedTable ==
    {<<"ka", "ga">>, <<"ki", "gi">>, <<"ku", "gu">>, <<"ke", "ge">>, <<"ko", "go">>,
     <<"sa", "za">>, <<"si", "zi">>, <<"su", "zu">>, <<"se", "ze">>, <<"so", "zo">>,
     <<"ta", "da">>, <<"ti", "di">>, <<"tu", "du">>, <<"te", "de">>, <<"to", "do">>}

Counterparts(x, y) == <<x, y>> \in VoicedTable \/ <<y, x>> \in VoicedTable

VoicedPairAsSpecified(a, b) ==
    /\ Len(a) > 0 /\ Len(b) > 0
    /\ Counterparts(a[1], b[1])
    /\ Rest(a) = Rest(b)

C8_VoicedPairExact ==
    output.fn = "is_voiced_pair" =>
        (output.val <=> VoicedPairAsSpecified(input[1], input[2]))

(***************************************************************************)
(* C9: is_rhyme(a, b) is false whenever the first character of a or of b   *)
(* is outside the kana-to-vowel table; it is true only when both first     *)
(* characters are in the table, have the same vowel, and all remaining     *)
(* characters are identical.                                               *)
(***************************************************************************)
InVowelTable(c) == vowel(c) # None

C9_RhymeOnlyInTable ==
    (output.fn = "is_rhyme" /\ output.val) =>
        /\ Len(input[1]) > 0 /\ Len(input[2]) > 0
        /\ InVowelTable(input[1][1]) /\ InVowelTable(input[2][1])
        /\ vowel(input[1][1]) = vowel(input[2][1])
        /\ Rest(input[1]) = Rest(input[2])

(***************************************************************************)
(* lib.rs: entries and DB::new.                                            *)
(***************************************************************************)

\* The orders in which a HashMap over the keys S may hand out its elements.
IterationOrders(S) ==
    {o \in [1..Cardinality(S) -> S] : \A i, j \in 1..Cardinality(S) : i # j => o[i] # o[j]}

\* The match of DB::new with the Rhyme arm tried before the Voicing arm.
inherit_rhyme_first(e, oya) ==
    IF Len(e.onyomi) > 0 /\ Len(oya.onyomi) > 0
    THEN LET a == e.onyomi[1]
             b == oya.onyomi[1]
         IN  IF a = b THEN "Same"
             ELSE IF is_rhyme(a, b) THEN "Rhyme"
             ELSE IF is_voiced_pair(a, b) THEN "Voicing"
             ELSE IF \E i \in 1..Len(e.onyomi) : \E j \in 1..Len(oya.onyomi) :
                        e.onyomi[i] = oya.onyomi[j]
                  THEN "Second"
             ELSE "Differ"
    ELSE "None"

\* The match of DB::new that labels the edge from the parent `oya` to the child `e`.
inherit(e, oya) ==
    IF Len(e.onyomi) > 0 /\ Len(oya.onyomi) > 0
    THEN LET a == e.onyomi[1]
             b == oya.onyomi[1]
         IN  IF a = b THEN "Same"
             ELSE IF is_voiced_pair(a, b) THEN "Voicing"
             ELSE IF is_rhyme(a, b) THEN "Rhyme"
             ELSE IF \E i \in 1..Len(e.onyomi) : \E j \in 1..Len(oya.onyomi) :
                        e.onyomi[i] = oya.onyomi[j]
                  THEN "Second"
             ELSE "Differ"
    ELSE "None"

\* The index DB::new collects: graph.add_node hands out 0, 1, 2, ... in the
\* iteration order of entries.keys().
add_nodes(order) ==
    [k \in Range(order) |-> (CHOOSE i \in 1..Len(order) : order[i] = k) - 1]

\* The edges of one entry drawn from the child to the parent.
edges_of_reversed(es, ix, e) ==
    LET found == SelectSeq(e.oya, LAMBDA o : o \in DOMAIN es /\ o \in DOMAIN ix)
    IN  [i \in 1..Len(found) |->
            [source |-> ix[e.kanji], target |-> ix[found[i]],
             weight |-> inherit(e, es[found[i]])]]

\* The edges DB::new adds for one entry e: one per element of e.oya that has an
\* entry (and so an index), in the order of e.oya.
edges_of(es, ix, e) ==
    LET found == SelectSeq(e.oya, LAMBDA o : o \in DOMAIN es /\ o \in DOMAIN ix)
    IN  [i \in 1..Len(found) |->
            [source |-> ix[found[i]], target |-> ix[e.kanji],
             weight |-> inherit(e, es[found[i]])]]

RECURSIVE add_edges(_, _, _, _)
add_edges(es, ix, order, i) ==
    IF i > Len(order)
    THEN <<>>
    ELSE edges_of(es, ix, es[order[i]]) \o add_edges(es, ix, order, i + 1)

\* DB::new(entries), the HashMap iterating in `order`.
DB_new(es, order) ==
    LET ix == add_nodes(order)
    IN  [entries |-> es,
         index |-> ix,
         graph |-> [nodes |-> order, edges |-> add_edges(es, ix, order, 1)]]

\* Graph::node_count.
node_count(g) == Len(g.nodes)

\* Graph::node_weight(nix); node indices start at 0.
node_weight(g, nix) == IF nix + 1 \in 1..Len(g.nodes) THEN g.nodes[nix + 1] ELSE None

\* DB::entry(nix) is Some.
has_entry(nix) ==
    /\ nix + 1 \in 1..Len(graph.nodes)
    /\ graph.nodes[nix + 1] \in DOMAIN entries

\* DB::entry(nix), when it is Some.
entry(nix) == entries[graph.nodes[nix + 1]]

(***************************************************************************)
(* The builder on a parent and its child: the parent 1 and the child 2,    *)
(* whose oya is the parent, with any onyomi over four readings:            *)
(* koku, its voiced form goku, its rhyme yoku, and the unrelated kou.      *)
(***************************************************************************)
Onyomi == {<<"ko", "ku">>, <<"go", "ku">>, <<"yo", "ku">>, <<"ko", "u">>}

OnyomiLists == SeqsUpTo(Onyomi, MaxYomi)

InitInherit ==
    /\ \E p, c \in OnyomiLists :
        entries = (1 :> Entry(1, <<>>, p)) @@ (2 :> Entry(2, <<1>>, c))
    /\ index = <<>>
    /\ graph = [nodes |-> <<>>, edges |-> <<>>]
    /\ built = FALSE
    /\ NoQuery /\ NoFile /\ NoCall /\ NoDot /\ NoProc
    /\ input = <<>>
    /\ output = [fn |-> "none", val |-> FALSE]

\* DB::new(entries).
New ==
    /\ ~built
    /\ \E order \in IterationOrders(DOMAIN entries) :
        LET db == DB_new(entries, order)
        IN  /\ index' = db.index
            /\ graph' = db.graph
    /\ built' = TRUE
    /\ UNCHANGED <<entries, query, stack, status, result, file, wrote, call, dot, proc, input, output>>

NextInherit == New

SpecInherit == InitInherit /\ [][NextInherit]_vars

\* The entry of the child (the target) and of the parent (the source) of an edge.
ChildOf(ed) == entries[graph.nodes[ed.target + 1]]

ParentOf(ed) == entries[graph.nodes[ed.source + 1]]

Edges == Range(graph.edges)

RhymeAsSpecified(a, b) ==
    /\ Len(a) > 0 /\ Len(b) > 0
    /\ InVowelTable(a[1]) /\ InVowelTable(b[1])
    /\ vowel(a[1]) = vowel(b[1])
    /\ Rest(a) = Rest(b)

SharesSecondary(c, p) == \E i \in 2..Len(c) : c[i] \in Range(p)

C7_SecondNeedsSecondary ==
    \A ed \in Edges :
        LET c == ChildOf(ed).onyomi
            p == ParentOf(ed).onyomi
        IN  /\ (ed.weight = "Second") =>
                /\ c # <<>> /\ p # <<>>
                /\ c[1] # p[1]
                /\ ~is_voiced_pair(c[1], p[1])
                /\ ~is_rhyme(c[1], p[1])
                /\ SharesSecondary(c, p)
            /\ (/\ c # <<>> /\ p # <<>>
                /\ c[1] # p[1]
                /\ ~is_voiced_pair(c[1], p[1])
                /\ ~is_rhyme(c[1], p[1])
                /\ c[1] \in Range(p)
                /\ ~SharesSecondary(c, p)) => ed.weight = "Differ"

(***************************************************************************)
(* lib.rs: the recursive queries all_children, all_parents and             *)
(* filtered_graph, run on an explicit call stack.  A frame is              *)
(*   [fn, arg, ks, phase, nb, pos, acc]:                                   *)
(* the function, its argument (a node index for all_children, a Kanji for  *)
(* all_parents), the list handed to filtered_graph, which loop the frame   *)
(* is in, the position in the neighbour list, the position in the oya (or  *)
(* ks) list, and the set collected so far.                                 *)
(***************************************************************************)
NewFrame(fn, arg, ks) ==
    [fn |-> fn, arg |-> arg, ks |-> ks,
     phase |-> IF fn = "filtered_graph" THEN "children" ELSE "grandchildren",
     nb |-> 1, pos |-> 1, acc |-> {}]

\* graph.neighbors_directed(kix, Outgoing): the targets of the edges leaving
\* kix, one per edge, the edge added last first.
neighbors_directed(g, kix) ==
    LET out == SelectSeq(g.edges, LAMBDA ed : ed.source = kix)
    IN  [i \in 1..Len(out) |-> out[Len(out) + 1 - i].target]

\* The first position from `from` on whose element has an index
\* (filter_map over index.get), or Len(s) + 1.
next_indexed(s, from) ==
    IF \E p \in from..Len(s) : s[p] \in DOMAIN index
    THEN CHOOSE p \in from..Len(s) :
            /\ s[p] \in DOMAIN index
            /\ \A q \in from..(p - 1) : s[q] \notin DOMAIN index
    ELSE Len(s) + 1

\* The oya list a frame of all_parents walks: entries.get(&k), or nothing.
parents_oya(f) == IF f.arg \in DOMAIN entries THEN entries[f.arg].oya ELSE <<>>

\* The child a frame of all_children is at.
child_at(f) == neighbors_directed(graph, f.arg)[f.nb]

\* The oya list all_children walks for the child it is at: self.entry(kix),
\* or nothing.
other_oya(f) == IF has_entry(child_at(f)) THEN entry(child_at(f)).oya ELSE <<>>

\* all_parents that takes the parent alone and forgets what the recursive call found.
parents_insert_parent_only(acc, r, ix) == acc \cup {ix}

\* all_parents: what one parent o contributes, given all_parents(o) = r.
parents_insert(acc, r, ix) == acc \cup (r \cup {ix})

\* all_children that takes the parents of a child without their ancestors.
others_insert_parent_only(acc, r, ix) == acc \cup {ix}

\* all_children: `others`, for one parent o of a child, given all_parents(o) = r.
others_insert(acc, r, ix) == acc \cup (r \cup {ix})

\* all_children: the set of a finished frame (ixs.insert(kix)).
children_done(acc, kix) == acc \cup {kix}

\* A node filter that keeps every node.
filter_map_keep_all(g, indices) == g

\* Graph::filter_map as filtered_graph uses it: the nodes in `indices` keep
\* their weight and are numbered anew in their old order; an edge is kept,
\* with its weight, when both its ends are kept.
filter_map(g, indices) ==
    LET kept == SelectSeq([i \in 1..Len(g.nodes) |-> i - 1], LAMBDA ix : ix \in indices)
        new_index(ix) == (CHOOSE i \in 1..Len(kept) : kept[i] = ix) - 1
        edges == SelectSeq(g.edges,
                           LAMBDA ed : ed.source \in indices /\ ed.target \in indices)
    IN  [nodes |-> [i \in 1..Len(kept) |-> g.nodes[kept[i] + 1]],
         edges |-> [i \in 1..Len(edges) |->
                        [source |-> new_index(edges[i].source),
                         target |-> new_index(edges[i].target),
                         weight |-> edges[i].weight]]]

\* What the innermost frame f does next:
\*   [kind |-> "call", fn, arg, at]   it calls fn(arg), from position `at`;
\*   [kind |-> "next", frame]         it moves on to its next loop;
\*   [kind |-> "done", value]         it returns value.
step_all_parents(f) ==
    LET oya == parents_oya(f)
        p == next_indexed(oya, f.pos)
    IN  IF p <= Len(oya)
        THEN [kind |-> "call", fn |-> "all_parents", arg |-> oya[p], at |-> p]
        ELSE [kind |-> "done", value |-> f.acc]

step_all_children(f) ==
    IF f.nb > Len(neighbors_directed(graph, f.arg))
    THEN [kind |-> "done", value |-> children_done(f.acc, f.arg)]
    ELSE IF f.phase = "grandchildren"
    THEN [kind |-> "call", fn |-> "all_children", arg |-> child_at(f), at |-> f.pos]
    ELSE LET oya == other_oya(f)
             p == next_indexed(oya, f.pos)
         IN  IF p <= Len(oya)
             THEN [kind |-> "call", fn |-> "all_parents", arg |-> oya[p], at |-> p]
             ELSE [kind |-> "next",
                   frame |-> [f EXCEPT !.nb = f.nb + 1, !.phase = "grandchildren", !.pos = 1]]

step_filtered_graph(f) ==
    IF f.phase = "children"
    THEN LET p == next_indexed(f.ks, f.pos)
         IN  IF p <= Len(f.ks)
             THEN [kind |-> "call", fn |-> "all_children", arg |-> index[f.ks[p]], at |-> p]
             ELSE [kind |-> "next", frame |-> [f EXCEPT !.phase = "parents", !.pos = 1]]
    ELSE IF f.pos <= Len(f.ks)
         THEN [kind |-> "call", fn |-> "all_parents", arg |-> f.ks[f.pos], at |-> f.pos]
         ELSE [kind |-> "done", value |-> filter_map(graph, f.acc)]

step(f) ==
    CASE f.fn = "all_parents" -> step_all_parents(f)
      [] f.fn = "all_children" -> step_all_children(f)
      [] f.fn = "filtered_graph" -> step_filtered_graph(f)

\* The frame f after the call it made at its position returned r.
resume(f, r) ==
    CASE f.fn = "all_parents" ->
            [f EXCEPT !.acc = parents_insert(f.acc, r, index[parents_oya(f)[f.pos]]),
                      !.pos = f.pos + 1]
      [] f.fn = "all_children" /\ f.phase = "grandchildren" ->
            [f EXCEPT !.acc = f.acc \cup r, !.phase = "other_parents", !.pos = 1]
      [] f.fn = "all_children" /\ f.phase = "other_parents" ->
            [f EXCEPT !.acc = others_insert(f.acc, r, index[other_oya(f)[f.pos]]),
                      !.pos = f.pos + 1]
      [] f.fn = "filtered_graph" ->
            [f EXCEPT !.acc = f.acc \cup r, !.pos = f.pos + 1]

Top == stack[Len(stack)]

Pop == SubSeq(stack, 1, Len(stack) - 1)

(***************************************************************************)
(* The queries on every small store: any set of the kanji 1..NumKanji has  *)
(* entries, each with any oya list (kanji without an entry, repeated       *)
(* parents, itself and cycles included).  The onyomi are fixed per kanji,  *)
(* so that the edges carry different labels.                               *)
(***************************************************************************)
KanjiSet == 1..NumKanji

OnyomiOf(k) ==
    CASE k = 1 -> << <<"ko", "ku">> >>
      [] k = 2 -> << <<"go", "ku">> >>
      [] k = 3 -> << <<"ko", "u">>, <<"ko", "ku">> >>
      [] OTHER -> <<>>

\* The places of the parent references of a store: <<k, i>> for the i-th
\* element of the oya of k.
Refs(f) == UNION {{<<k, i>> : i \in 1..Len(f[k])} : k \in DOMAIN f}

RECURSIVE SumBelow(_, _)
SumBelow(len, k) ==
    IF k <= 1 THEN 0
    ELSE SumBelow(len, k - 1) + (IF (k - 1) \in DOMAIN len THEN len[k - 1] ELSE 0)

\* The stores with entries for the kanji S whose oya have the lengths len,
\* their elements drawn from P.
StoresOfShape(S, P, len) ==
    {[k \in S |-> Entry(k, [i \in 1..len[k] |-> c[SumBelow(len, k) + i]], OnyomiOf(k))] :
        c \in [1..Cardinality(Refs([k \in S |-> [i \in 1..len[k] |-> 0]])) -> P]}

\* The stores over the kanji K: any subset of K has entries, with at most
\* maxOya parents each and maxRefs parent references in all.
Stores(K, maxOya, maxRefs) ==
    UNION {UNION {StoresOfShape(S, K, len) :
                    len \in {l \in [S -> 0..maxOya] :
                                SumBelow(l, Cardinality(K) + 1) <= maxRefs}} :
           S \in SUBSET K}

InitQuery ==
    /\ entries \in Stores(KanjiSet, MaxOya, MaxRefs)
    /\ index = <<>>
    /\ graph = [nodes |-> <<>>, edges |-> <<>>]
    /\ built = FALSE
    /\ NoQuery /\ NoFile /\ NoCall /\ NoDot /\ NoProc
    /\ input = <<>>
    /\ output = [fn |-> "none", val |-> FALSE]

Start(fn, arg, ks) ==
    /\ built
    /\ status = "idle"
    /\ query' = [fn |-> fn, arg |-> arg, ks |-> ks]
    /\ stack' = <<NewFrame(fn, arg, ks)>>
    /\ status' = "running"
    /\ UNCHANGED <<entries, index, graph, built, result, file, wrote, call, dot, proc, input, output>>

\* db.all_children(kix), for a node of the graph.
CallAllChildren == \E kix \in 0..(node_count(graph) - 1) : Start("all_children", kix, <<>>)

\* db.all_parents(k), for any kanji.
CallAllParents == \E k \in KanjiSet : Start("all_parents", k, <<>>)

\* db.filtered_graph(ks), for any list of kanji.
CallFilteredGraph == \E ks \in SeqsUpTo(KanjiSet, MaxKs) : Start("filtered_graph", 0, ks)

\* The innermost frame makes its next call.
Descend ==
    /\ status = "running"
    /\ step(Top).kind = "call"
    /\ Len(stack) < StackLimit
    /\ stack' = [stack EXCEPT ![Len(stack)] = [Top EXCEPT !.pos = step(Top).at]]
                    \o <<NewFrame(step(Top).fn, step(Top).arg, <<>>)>>
    /\ UNCHANGED <<entries, index, graph, built, query, status, result, file, wrote, call, dot, proc,
                   input, output>>

\* The innermost frame makes its next call and the stack is full: the process
\* dies, the query never returns.
Overflow ==
    /\ status = "running"
    /\ step(Top).kind = "call"
    /\ Len(stack) >= StackLimit
    /\ status' = "overflow"
    /\ UNCHANGED <<entries, index, graph, built, query, stack, result, file, wrote, call, dot, proc,
                   input, output>>

\* The innermost frame moves on to its next loop.
Advance ==
    /\ status = "running"
    /\ step(Top).kind = "next"
    /\ stack' = [stack EXCEPT ![Len(stack)] = step(Top).frame]
    /\ UNCHANGED <<entries, index, graph, built, query, status, result, file, wrote, call, dot, proc,
                   input, output>>

\* The innermost frame returns, to its caller or as the answer of the query.
Return ==
    /\ status = "running"
    /\ step(Top).kind = "done"
    /\ IF Len(stack) = 1
       THEN /\ result' = step(Top).value
            /\ status' = "returned"
            /\ stack' = <<>>
       ELSE /\ stack' = [Pop EXCEPT ![Len(stack) - 1] =
                            resume(stack[Len(stack) - 1], step(Top).value)]
            /\ UNCHANGED <<result, status>>
    /\ UNCHANGED <<entries, index, graph, built, query, file, wrote, call, dot, proc, input, output>>

NextQuery ==
    \/ New
    \/ CallAllChildren
    \/ CallAllParents
    \/ CallFilteredGraph
    \/ Descend
    \/ Advance
    \/ Return
    \/ Overflow

SpecQuery == InitQuery /\ [][NextQuery]_vars

(***************************************************************************)
(* The oya relation and the graph, as relations: what the claims about the *)
(* queries are stated in.                                                  *)
(***************************************************************************)
\* The parents of k that have an entry.
OyaOf(k) ==
    IF k \in DOMAIN entries
    THEN {o \in Range(entries[k].oya) : o \in DOMAIN entries}
    ELSE {}

Up(S) == UNION {OyaOf(k) : k \in S}

RECURSIVE UpClosure(_, _)
UpClosure(S, n) == IF n = 0 THEN S ELSE UpClosure(S \cup Up(S), n - 1)

\* The kanji reached from k by one or more oya steps through entries.
Ancestors(k) == UpClosure(Up({k}), Cardinality(DOMAIN entries))

Acyclic == \A k \in DOMAIN entries : k \notin Ancestors(k)

\* The same, as node indices.
AncestorNodes(k) == {index[a] : a \in Ancestors(k)}

KanjiAt(nix) == graph.nodes[nix + 1]

Down(S) == {ed.target : ed \in {x \in Edges : x.source \in S}}

RECURSIVE DownClosure(_, _)
DownClosure(S, n) == IF n = 0 THEN S ELSE DownClosure(S \cup Down(S), n - 1)

\* The nodes reached from n by one or more edges.
Descendants(n) == DownClosure(Down({n}), node_count(graph))

\* The parents (with an entry) of the node d, as nodes.
ParentNodes(d) == {index[o] : o \in OyaOf(KanjiAt(d))}

Returned(fn) == status = "returned" /\ query.fn = fn

(***************************************************************************)
(* C1: on every store DB::new builds a graph from, oya cycles and entries  *)
(* that are their own parent included, all_children(node) and              *)
(* all_parents(kanji) terminate: the call never runs out of stack.         *)
(***************************************************************************)
C1_QueriesTerminate ==
    query.fn \in {"all_children", "all_parents"} => status # "overflow"

\* The stack is not merely too small: when a query dies, a call on its stack
\* is nested in the same call, which nothing can end.
OverflowIsDivergence ==
    status = "overflow" =>
        \E i, j \in 1..Len(stack) :
            /\ i < j
            /\ stack[i].fn = stack[j].fn
            /\ stack[i].arg = stack[j].arg

\* Without a cycle, every query returns.
AcyclicTerminates == Acyclic => status # "overflow"

(***************************************************************************)
(* C2: on a store without oya cycles, all_parents(k) returns exactly the   *)
(* nodes of the kanji reached from k by one or more oya steps through      *)
(* kanji that have an entry: never k's own node, nothing for a parent      *)
(* without an entry, and nothing at all when k has no entry.               *)
(***************************************************************************)
C2_AllParentsExact ==
    (query.fn = "all_parents" /\ Acyclic) =>
        /\ status # "overflow"
        /\ status = "returned" =>
            /\ result = AncestorNodes(query.arg)
            /\ query.arg \in DOMAIN index => index[query.arg] \notin result
            /\ query.arg \notin DOMAIN entries => result = {}

\* The chain 1 -> 2 -> 3, beside a parent that has no entry:
\* all_parents(3) returned the nodes of 1 and 2.
C2_Witness ==
    /\ Returned("all_parents")
    /\ query.arg = 3
    /\ DOMAIN entries = {1, 2, 3}
    /\ entries[1].oya = <<>> /\ entries[2].oya = <<1>> /\ entries[3].oya = <<2>>
    /\ result = {index[1], index[2]}

(***************************************************************************)
(* C3, as claimed: on a store without oya cycles, all_children(n) is n,    *)
(* the nodes reached from n along the edges, and, for every reached node d *)
(* other than n, the other parents of d (those that are not n) with all    *)
(* their ancestors; and no other node.                                     *)
(***************************************************************************)
OtherParentNodes(d, n) == ParentNodes(d) \ {n}

AllChildrenNodes(n) ==
    {n} \cup Descendants(n)
        \cup UNION {ParentNodes(d) \cup UNION {AncestorNodes(KanjiAt(p)) : p \in ParentNodes(d)} :
                    d \in Descendants(n)}

FamilyNodes(ks) ==
    UNION {AllChildrenNodes(index[k]) \cup AncestorNodes(k) :
           k \in {x \in Range(ks) : x \in DOMAIN entries}}

\* An edge of g, by the kanji at its ends.
ByKanji(g, ed) == <<g.nodes[ed.source + 1], g.nodes[ed.target + 1], ed.weight>>

EdgesByKanji(g) == [i \in 1..Len(g.edges) |-> ByKanji(g, g.edges[i])]

C4_InducedSubgraph ==
    Returned("filtered_graph") =>
        LET N == FamilyNodes(query.ks)
            kept == SelectSeq(graph.edges, LAMBDA ed : ed.source \in N /\ ed.target \in N)
        IN  /\ Range(result.nodes) = {KanjiAt(n) : n \in N}
            /\ Len(result.nodes) = Cardinality(N)
            /\ EdgesByKanji(result) = [i \in 1..Len(kept) |-> ByKanji(graph, kept[i])]
            /\ \A ed \in Range(result.edges) :
                /\ ed.source \in 0..(Len(result.nodes) - 1)
                /\ ed.target \in 0..(Len(result.nodes) - 1)

\* filtered_graph returned a graph that kept an edge of the full graph and
\* dropped another one.
C4_Witness ==
    /\ Returned("filtered_graph")
    /\ Len(result.edges) >= 1
    /\ Len(result.edges) < Len(graph.edges)

(***************************************************************************)
(* C5: after DB::new the graph has one edge parent -> child for each       *)
(* occurrence of a kanji with an entry in the oya of an entry (a repeated  *)
(* parent gives parallel edges) and no edge for a parent without an entry; *)
(* the build does not fail on a missing parent; the ends of every edge are *)
(* nodes whose kanji are keys of the store.                                *)
(***************************************************************************)
Occurrences(child, parent) ==
    Cardinality({i \in 1..Len(entries[child].oya) : entries[child].oya[i] = parent})

EdgesBetween(parent, child) ==
    Cardinality({i \in 1..Len(graph.edges) :
                    /\ graph.edges[i].source = index[parent]
                    /\ graph.edges[i].target = index[child]})

C5_EdgesMatchOya ==
    /\ ~built => ENABLED New
    /\ built =>
        /\ DOMAIN index = DOMAIN entries
        /\ Len(graph.nodes) = Cardinality(DOMAIN entries)
        /\ \A k \in DOMAIN entries : graph.nodes[index[k] + 1] = k
        /\ \A c, p \in DOMAIN entries : EdgesBetween(p, c) = Occurrences(c, p)
        /\ Len(graph.edges) =
                Cardinality({r \in Refs([k \in DOMAIN entries |-> entries[k].oya]) :
                                entries[r[1]].oya[r[2]] \in DOMAIN entries})
        /\ \A ed \in Edges :
            /\ ed.source \in 0..(Len(graph.nodes) - 1)
            /\ ed.target \in 0..(Len(graph.nodes) - 1)
            /\ graph.nodes[ed.source + 1] \in DOMAIN entries
            /\ graph.nodes[ed.target + 1] \in DOMAIN entries

\* A store with a repeated parent and with a parent that has no entry has
\* been built: two parallel edges, and nothing for the missing parent.
C5_Witness ==
    /\ built
    /\ \E c, p \in DOMAIN entries : Occurrences(c, p) = 2 /\ EdgesBetween(p, c) = 2
    /\ \E c \in DOMAIN entries : \E i \in 1..Len(entries[c].oya) :
            entries[c].oya[i] \notin DOMAIN entries

(***************************************************************************)
(* lib.rs: write_db.  The data file is the sequence of the JSON tokens in  *)
(* it (the white space of the pretty printer is left out).  A token is     *)
(* [t, k, s]: punctuation, the key of a field, or a string, which holds a  *)
(* Kanji (k) or a reading (s).                                             *)
(***************************************************************************)
Tok(t) == [t |-> t, k |-> 0, s |-> <<>>]

Key(name) == [t |-> "key", k |-> 0, s |-> <<name>>]

KanjiStr(k) == [t |-> "string", k |-> k, s |-> <<>>]

ReadingStr(r) == [t |-> "string", k |-> 0, s |-> r]

\* The elements of a JSON array, commas between them.
RECURSIVE ser_items(_)
ser_items(toks) ==
    IF Len(toks) = 0 THEN <<>>
    ELSE IF Len(toks) = 1 THEN <<toks[1]>>
    ELSE <<toks[1], Tok(",")>> \o ser_items(Tail(toks))

\* A Vec field of Entry: left out when empty (skip_serializing_if), after
\* the field "kanji" otherwise.
ser_field(name, toks) ==
    IF Len(toks) = 0
    THEN <<>>
    ELSE <<Tok(","), Key(name), Tok(":"), Tok("[")>> \o ser_items(toks) \o <<Tok("]")>>

\* #[derive(Serialize)] for Entry.
ser_entry(e) ==
    <<Tok("{"), Key("kanji"), Tok(":"), KanjiStr(e.kanji)>>
        \o ser_field("oya", [i \in 1..Len(e.oya) |-> KanjiStr(e.oya[i])])
        \o ser_field("kakushi_oya",
                     [i \in 1..Len(e.kakushi_oya) |-> KanjiStr(e.kakushi_oya[i])])
        \o ser_field("onyomi", [i \in 1..Len(e.onyomi) |-> ReadingStr(e.onyomi[i])])
        \o ser_field("daihyou", [i \in 1..Len(e.daihyou) |-> ReadingStr(e.daihyou[i])])
        \o <<Tok("}")>>

RECURSIVE ser_entries(_)
ser_entries(es) ==
    IF Len(es) = 0 THEN <<>>
    ELSE IF Len(es) = 1 THEN ser_entry(es[1])
    ELSE ser_entry(es[1]) \o <<Tok(",")>> \o ser_entries(Tail(es))

\* serde_json::to_writer_pretty(file, &entries).
to_writer_pretty(es) == <<Tok("[")>> \o ser_entries(es) \o <<Tok("]")>>

\* entries.sort_by_key(|e| e.kanji), from into_values() in any order: the
\* keys are distinct, so the outcome is one.
sort_by_key(es) ==
    LET keys == SortSeq(CHOOSE o \in IterationOrders(DOMAIN es) : TRUE, LAMBDA a, b : a < b)
    IN  [i \in 1..Len(keys) |-> es[keys[i]]]

\* e.oya.sort().
sort_oya(e) == [e EXCEPT !.oya = SortSeq(e.oya, LAMBDA a, b : a < b)]

\* What write_db writes for the entries es.
written(es) ==
    LET sorted == sort_by_key(es)
    IN  to_writer_pretty([i \in 1..Len(sorted) |-> sort_oya(sorted[i])])

\* The content of a file opened with write(true).create(true) after `new`
\* was written to it and it was closed: the file is created when absent, it
\* is not truncated, and the write goes to its start.
open_write(old, new) == new \o SubSeq(old, Len(new) + 1, Len(old))

(***************************************************************************)
(* lib.rs: open_db.  serde_json::from_str::<Vec<Entry>> reads the tokens   *)
(* of the file from the first to the last; a parser answers                *)
(* [ok, val, pos]: whether it read a value, the value, and the position    *)
(* after it.                                                               *)
(***************************************************************************)
Fail == [ok |-> FALSE, val |-> <<>>, pos |-> 0]

Read(v, p) == [ok |-> TRUE, val |-> v, pos |-> p]

\* The token at position p; past the end, the end of the input.
At(toks, p) == IF p \in 1..Len(toks) THEN toks[p] ELSE Tok("eof")

\* A JSON string as a Kanji: the string of one kanji character.
de_kanji(toks, p) ==
    IF At(toks, p).t = "string" /\ At(toks, p).k # 0
    THEN Read(At(toks, p).k, p + 1)
    ELSE Fail

\* A JSON string as a String: any string.
de_string(toks, p) ==
    IF At(toks, p).t = "string"
    THEN Read(IF At(toks, p).k # 0 THEN <<At(toks, p).k>> ELSE At(toks, p).s, p + 1)
    ELSE Fail

de_elem(toks, p, kanji) == IF kanji THEN de_kanji(toks, p) ELSE de_string(toks, p)

\* The elements of a JSON array after its "[" or after a ",": x is the
\* element read at the start, and the array ends or goes on after it.
RECURSIVE de_items(_, _, _, _)
RECURSIVE de_items_after(_, _, _, _)
de_items_after(toks, kanji, acc, x) ==
    IF ~x.ok THEN Fail
    ELSE IF At(toks, x.pos) = Tok("]") THEN Read(Append(acc, x.val), x.pos + 1)
    ELSE IF At(toks, x.pos) = Tok(",") THEN de_items(toks, x.pos + 1, kanji, Append(acc, x.val))
    ELSE Fail

de_items(toks, p, kanji, acc) == de_items_after(toks, kanji, acc, de_elem(toks, p, kanji))

\* A JSON array as a Vec<Kanji> (kanji) or a Vec<String>.
de_vec(toks, p, kanji) ==
    IF At(toks, p) # Tok("[") THEN Fail
    ELSE IF At(toks, p + 1) = Tok("]") THEN Read(<<>>, p + 2)
    ELSE de_items(toks, p + 1, kanji, <<>>)

\* The fields of Entry, and those that are a Vec<Kanji>.
EntryFields == {"kanji", "oya", "kakushi_oya", "onyomi", "daihyou"}

KanjiFields == {"oya", "kakushi_oya"}

\* The value of the field `name` of an Entry; a value under any other key is
\* read and ignored.
de_field(toks, p, name) ==
    IF name = "kanji" THEN de_kanji(toks, p)
    ELSE IF name \in EntryFields THEN de_vec(toks, p, name \in KanjiFields)
    ELSE IF At(toks, p).t = "string" THEN de_string(toks, p)
    ELSE de_vec(toks, p, FALSE)

\* #[derive(Deserialize)] for Entry, the members of the object after its "{"
\* or after a ",": a field given twice is an error, and so is an object
\* without "kanji"; a Vec that is not given is empty (serde(default)).  v is
\* the value read for the key `name`, and the object ends or goes on after
\* it.
RECURSIVE de_members(_, _, _, _)
RECURSIVE de_members_after(_, _, _, _, _)
de_members_after(toks, e, seen, name, v) ==
    IF name \in seen \/ ~v.ok THEN Fail
    ELSE IF At(toks, v.pos) = Tok(",")
         THEN de_members(toks, v.pos + 1,
                         IF name \in EntryFields THEN [e EXCEPT ![name] = v.val] ELSE e,
                         seen \cup ({name} \cap EntryFields))
    ELSE IF At(toks, v.pos) = Tok("}") /\ "kanji" \in seen \cup {name}
         THEN Read(IF name \in EntryFields THEN [e EXCEPT ![name] = v.val] ELSE e, v.pos + 1)
    ELSE Fail

de_members(toks, p, e, seen) ==
    IF At(toks, p).t # "key" \/ At(toks, p + 1) # Tok(":") THEN Fail
    ELSE de_members_after(toks, e, seen, At(toks, p).s[1],
                          de_field(toks, p + 2, At(toks, p).s[1]))

de_entry(toks, p) ==
    IF At(toks, p) # Tok("{") THEN Fail
    ELSE de_members(toks, p + 1, Entry(0, <<>>, <<>>), {})

\* The elements of the array of entries after its "[" or after a ",": x is
\* the entry read at the start.
RECURSIVE de_entries(_, _, _)
RECURSIVE de_entries_after(_, _, _)
de_entries_after(toks, acc, x) ==
    IF ~x.ok THEN Fail
    ELSE IF At(toks, x.pos) = Tok("]") THEN Read(Append(acc, x.val), x.pos + 1)
    ELSE IF At(toks, x.pos) = Tok(",") THEN de_entries(toks, x.pos + 1, Append(acc, x.val))
    ELSE Fail

de_entries(toks, p, acc) == de_entries_after(toks, acc, de_entry(toks, p))

\* The value x was read from the whole of the input.
to_end(toks, x) == IF x.ok /\ x.pos = Len(toks) + 1 THEN x ELSE Fail

\* serde_json::from_str::<Vec<Entry>>(&raw): one array of entries, and
\* nothing after it.
from_str(toks) ==
    to_end(toks, IF At(toks, 1) # Tok("[") THEN Fail
                 ELSE IF At(toks, 2) = Tok("]") THEN Read(<<>>, 3)
                 ELSE de_entries(toks, 2, <<>>))

\* ks.into_iter().map(|e| (e.kanji, e)).collect(): of two entries of one
\* kanji the later stays.
collect(ks) ==
    [k \in {ks[i].kanji : i \in 1..Len(ks)} |->
        ks[CHOOSE i \in 1..Len(ks) :
            /\ ks[i].kanji = k
            /\ \A j \in (i + 1)..Len(ks) : ks[j].kanji # k]]

\* Ok(DB::new(hm)), the HashMap iterating in any order.
opened(hm) ==
    {Called("open_db", "Ok", DB_new(hm, order), NoPrompt) : order \in IterationOrders(DOMAIN hm)}

\* What open_db returns once the file was read: Json when the text is not
\* an array of entries, else the DB of its entries.
parsed(ks) ==
    IF ~ks.ok THEN {Called("open_db", "Json", EmptyDB, NoPrompt)}
    ELSE opened(collect(ks.val))

\* The Results open_db(path) may give: Io when there is no file, else what
\* the text of the file gives.
open_db(exists, toks) ==
    IF ~exists THEN {Called("open_db", "Io", EmptyDB, NoPrompt)}
    ELSE parsed(from_str(toks))

(***************************************************************************)
(* write_db called with any DB over the kanji 1..FileKanji, time after     *)
(* time, on a data file that does not exist at first.                      *)
(***************************************************************************)
\* The stores write_db is handed.
FileStores(K) == Stores(K, MaxOya, Cardinality(K) * MaxOya)

InitFile ==
    /\ NoDB /\ NoQuery /\ NoFile /\ NoCall /\ NoDot /\ NoProc
    /\ input = <<>>
    /\ output = [fn |-> "none", val |-> FALSE]

\* DB::new(entries) for the next store to write.
NewDB ==
    /\ ~built
    /\ wrote.n < MaxWrites
    /\ \E es \in FileStores(1..FileKanji) : \E order \in IterationOrders(DOMAIN es) :
        LET db == DB_new(es, order)
        IN  /\ entries' = db.entries
            /\ index' = db.index
            /\ graph' = db.graph
    /\ built' = TRUE
    /\ UNCHANGED <<query, stack, status, result, file, wrote, call, dot, proc, input, output>>

\* write_db(path, db), Ok: the DB is moved into the call and dropped.
WriteDb ==
    /\ built
    /\ file' = open_write(file, written(entries))
    /\ wrote' = [n |-> wrote.n + 1, entries |-> entries]
    /\ entries' = <<>>
    /\ index' = <<>>
    /\ graph' = [nodes |-> <<>>, edges |-> <<>>]
    /\ built' = FALSE
    /\ call' = Called("write_db", "Ok", EmptyDB, NoPrompt)
    /\ UNCHANGED <<query, stack, status, result, dot, proc, input, output>>

\* open_db(path): the path is that of the write_db calls, and there is a
\* file once write_db was called.
OpenDb ==
    /\ call' \in open_db(wrote.n > 0, file)
    /\ UNCHANGED <<entries, index, graph, built, query, stack, status, result, file, wrote, dot, proc,
                   input, output>>

NextFile == NewDB \/ WriteDb \/ OpenDb

SpecFile == InitFile /\ [][NextFile]_vars

(***************************************************************************)
(* C10: after a successful write_db(path, db), whatever the file held      *)
(* before, the file holds exactly the serialization of the entries of db,  *)
(* ascending by kanji and each oya sorted: nothing of the previous content *)
(* remains.                                                                *)
(***************************************************************************)
IsSorted(sq) == \A i \in 1..(Len(sq) - 1) : sq[i] <= sq[i + 1]

\* The serialization of es, said without the sort: the entries in the one
\* ascending order of their keys, each with its oya in the one ascending
\* arrangement of the same elements.
Serialization(es) ==
    LET keys == CHOOSE o \in IterationOrders(DOMAIN es) : IsSorted(o)
        Sorted(sq) == CHOOSE t \in [1..Len(sq) -> Range(sq)] :
                        /\ IsSorted(t)
                        /\ \A x \in Range(sq) :
                            Cardinality({i \in 1..Len(sq) : t[i] = x})
                                = Cardinality({i \in 1..Len(sq) : sq[i] = x})
    IN  to_writer_pretty([i \in 1..Len(keys) |->
                            [es[keys[i]] EXCEPT !.oya = Sorted(es[keys[i]].oya)]])

JustWrote == wrote.n > 0 /\ ~built

C10_WriteReplacesFile ==
    JustWrote => file = Serialization(wrote.entries)

\* What does hold: the file starts with the serialization.
WriteIsPrefix ==
    JustWrote =>
        /\ Len(file) >= Len(Serialization(wrote.entries))
        /\ SubSeq(file, 1, Len(Serialization(wrote.entries)))
                = Serialization(wrote.entries)

(***************************************************************************)
(* C11: round trip.  For any store S, open_db on the file that             *)
(* write_db(path, S) produced succeeds, and the store it yields has the    *)
(* keys of S and, for each key, the fields of S: oya after the sort,       *)
(* onyomi and the other sequences in their order.                          *)
(***************************************************************************)
\* The entry e as the file keeps it: oya in ascending order.
Normalized(e) ==
    [e EXCEPT !.oya = CHOOSE t \in [1..Len(e.oya) -> Range(e.oya)] :
                        /\ IsSorted(t)
                        /\ \A x \in Range(e.oya) :
                            Cardinality({i \in 1..Len(t) : t[i] = x})
                                = Cardinality({i \in 1..Len(t) : e.oya[i] = x})]

SameStore(loaded, stored) ==
    /\ DOMAIN loaded = DOMAIN stored
    /\ \A k \in DOMAIN stored : loaded[k] = Normalized(stored[k])

\* open_db was called on the file of the last write_db call.
OpenedWritten == call.fn = "open_db" /\ wrote.n > 0

C11_RoundTrip ==
    OpenedWritten => call.res = "Ok" /\ SameStore(call.db.entries, wrote.entries)

\* What does hold: the round trip through a path that held no file.
RoundTripOfNewFile ==
    OpenedWritten /\ wrote.n = 1 =>
        call.res = "Ok" /\ SameStore(call.db.entries, wrote.entries)

\* The failed round trips are those of a write over a longer file.
RoundTripFailsOnLeftover ==
    OpenedWritten =>
        \/ call.res = "Ok" /\ SameStore(call.db.entries, wrote.entries)
        \/ call.res = "Json" /\ Len(file) > Len(Serialization(wrote.entries))

(***************************************************************************)
(* main.rs: new_entry.  One run of the command `kin new`, on a data file   *)
(* that is absent, or was written by write_db, for a new file or over a    *)
(* longer one.                                                             *)
(***************************************************************************)
\* db.entries.insert(kanji, entry): the map afterwards.
insert(es, e) == [k \in DOMAIN es \cup {e.kanji} |-> IF k = e.kanji THEN e ELSE es[k]]

\* new_entry with write_db called whether or not the kanji had an entry.
new_entry_write_on_collision(exists, toks, prompt) ==
    {IF r.res # "Ok" THEN [res |-> r.res, write |-> FALSE, entries |-> <<>>]
     ELSE IF ~prompt.ok THEN [res |-> "Readline", write |-> FALSE, entries |-> <<>>]
     ELSE [res |-> IF prompt.entry.kanji \in DOMAIN r.db.entries THEN "Exists" ELSE "Ok",
           write |-> TRUE, entries |-> insert(r.db.entries, prompt.entry)] :
        r \in open_db(exists, toks)}

\* new_entry(path), kanji_prompt answering `prompt`: the Result, whether
\* write_db is called, and the entries it is called with.
new_entry(exists, toks, prompt) ==
    {IF r.res # "Ok" THEN [res |-> r.res, write |-> FALSE, entries |-> <<>>]
     ELSE IF ~prompt.ok THEN [res |-> "Readline", write |-> FALSE, entries |-> <<>>]
     ELSE IF prompt.entry.kanji \in DOMAIN r.db.entries
          THEN [res |-> "Exists", write |-> FALSE, entries |-> <<>>]
     ELSE [res |-> "Ok", write |-> TRUE, entries |-> insert(r.db.entries, prompt.entry)] :
        r \in open_db(exists, toks)}

\* The stores of the data files.
EntryStores == Stores(1..FileKanji, MaxOya, MaxEntryRefs)

\* What kanji_prompt may return.
Prompts ==
    {NoPrompt} \cup
    {[ok |-> TRUE, entry |-> Entry(k, oya, onyomi)] :
        k \in 1..FileKanji, oya \in SeqsUpTo(1..FileKanji, MaxOya),
        onyomi \in {<<>>, <<<<"ko", "ku">>>>}}

InitEntry ==
    /\ NoDB /\ NoQuery /\ NoDot /\ NoProc
    /\ input = <<>>
    /\ output = [fn |-> "none", val |-> FALSE]
    /\ \/ NoFile /\ NoCall
       \/ \E es \in EntryStores :
            /\ file = written(es)
            /\ wrote = [n |-> 1, entries |-> es]
            /\ call = Called("write_db", "Ok", EmptyDB, NoPrompt)
       \/ \E es \in EntryStores :
            /\ file = open_write(written(es), written(<<>>))
            /\ wrote = [n |-> 2, entries |-> <<>>]
            /\ call = Called("write_db", "Ok", EmptyDB, NoPrompt)

\* main calls new_entry(&args.data) and returns.
NewEntry ==
    /\ call.fn # "new_entry"
    /\ \E prompt \in Prompts : \E r \in new_entry(wrote.n > 0, file, prompt) :
        /\ call' = Called("new_entry", r.res, EmptyDB, prompt)
        /\ IF r.write
           THEN /\ file' = open_write(file, written(r.entries))
                /\ wrote' = [n |-> wrote.n + 1, entries |-> r.entries]
           ELSE UNCHANGED <<file, wrote>>
        /\ UNCHANGED <<entries, index, graph, built, query, stack, status, result, dot, proc,
                       input, output>>

NextEntry == NewEntry

SpecEntry == InitEntry /\ [][NextEntry]_vars

(***************************************************************************)
(* C12: when new_entry is given an entry whose kanji has an entry in the   *)
(* store it loaded, it fails with Exists, write_db is not called and the   *)
(* file stays as it was; write_db is called only when the kanji had no     *)
(* entry.                                                                  *)
(***************************************************************************)
\* The store in the data file, when the file can be loaded.
Loadable == wrote.n > 0 /\ from_str(file).ok

StoredKanji == {from_str(file).val[i].kanji : i \in 1..Len(from_str(file).val)}

\* The step is a new_entry call whose prompt gave an entry of a stored kanji.
Collision ==
    /\ call'.fn = "new_entry" /\ call'.arg.ok
    /\ Loadable /\ call'.arg.entry.kanji \in StoredKanji

C12_CollisionNotPersisted ==
    [][/\ Collision => call'.res = "Exists" /\ file' = file /\ wrote' = wrote
       /\ wrote'.n # wrote.n =>
            /\ call'.arg.ok /\ call'.res = "Ok"
            /\ Loadable /\ call'.arg.entry.kanji \notin StoredKanji]_vars

C12_Witness ==
    /\ call.fn = "new_entry" /\ call.res = "Exists"
    /\ Loadable /\ call.arg.entry.kanji \in StoredKanji

(***************************************************************************)
(* lib.rs: dot_custom and with_groups.  The String is the sequence of its  *)
(* lines; a line is [kind, indent, src, dst, label, level, attr].          *)
(***************************************************************************)
\* A line of fixed text, or one that holds the reading y.
Text(kind, y) ==
    [kind |-> kind, indent |-> 0, src |-> 0, dst |-> 0, label |-> y, level |-> <<>>,
     attr |-> ""]

\* A node statement, indented by `indent` steps:
\*   "plain"   {kix} [ label="{k}", shape={shape} ]
\*   "node"    {kix} [ label=<{k}{level}>, shape={shape} ]
\*   "node;"   {kix} [ label=<{k}{level}>, shape={shape} ];
NodeStmt(kind, indent, kix, k, level, shape) ==
    [kind |-> kind, indent |-> indent, src |-> kix, dst |-> kix, label |-> <<k>>,
     level |-> level, attr |-> shape]

\* An edge statement: `{source} -> {target} [ {attr} ]`.
EdgeStmt(source, target, attr) ==
    [kind |-> "edge", indent |-> 1, src |-> source, dst |-> target, label |-> <<>>,
     level |-> <<>>, attr |-> attr]

\* Inherit::to_dot_attr.
to_dot_attr(inh) ==
    CASE inh = "Same" -> "color=green"
      [] inh = "Second" -> "color=greenyellow"
      [] inh = "Voicing" -> "color=yellow"
      [] inh = "Rhyme" -> "color=yellow"
      [] inh = "Consonant" -> "color=orange"
      [] inh = "Differ" -> "color=red"
      [] OTHER -> "color=gray"

\* kanji::level_table(): the exam level of a kanji, for those that have
\* one.  An Option is the sequence of what it holds.
level_table(k) == IF k = 1 THEN <<"Ten">> ELSE <<>>

\* Vec::first.
first(v) == IF Len(v) = 0 THEN <<>> ELSE <<v[1]>>

\* DB::shape.
shape(chosen, k) == IF k \in chosen THEN "doublecircle" ELSE "circle"

\* The code point of a kana character; a String is ordered by its bytes,
\* which for UTF-8 is the order of its code points.
CodePoint(c) ==
    CASE c = "u" -> 12358
      [] c = "ku" -> 12367
      [] c = "ko" -> 12371
      [] c = "go" -> 12372
      [] c = "yo" -> 12424
      [] c = "GA" -> 12460
      [] c = "DA" -> 12480

\* Ord for String: "Less", "Equal" or "Greater".
RECURSIVE cmp_string(_, _)
cmp_string(a, b) ==
    IF Len(a) = 0 /\ Len(b) = 0 THEN "Equal"
    ELSE IF Len(a) = 0 THEN "Less"
    ELSE IF Len(b) = 0 THEN "Greater"
    ELSE IF CodePoint(a[1]) < CodePoint(b[1]) THEN "Less"
    ELSE IF CodePoint(a[1]) > CodePoint(b[1]) THEN "Greater"
    ELSE cmp_string(Tail(a), Tail(b))

\* Ord for Option with None as the greatest value.
cmp_none_last(x, y) ==
    IF Len(x) = 0 /\ Len(y) = 0 THEN "Equal"
    ELSE IF Len(x) = 0 THEN "Greater"
    ELSE IF Len(y) = 0 THEN "Less"
    ELSE cmp_string(x[1], y[1])

\* Ord for Option<&String>, a.2.cmp(&b.2): None is less than every Some.
cmp(x, y) ==
    IF Len(x) = 0 /\ Len(y) = 0 THEN "Equal"
    ELSE IF Len(x) = 0 THEN "Less"
    ELSE IF Len(y) = 0 THEN "Greater"
    ELSE cmp_string(x[1], y[1])

\* The items dot_custom hands to with_groups: for the nodes of the graph
\* whose kanji has an entry, in the order of their indices.
filtered(g) ==
    LET kept == SelectSeq([i \in 1..Len(g.nodes) |-> i - 1],
                          LAMBDA kix : g.nodes[kix + 1] \in DOMAIN entries)
    IN  [i \in 1..Len(kept) |->
            [kix |-> kept[i],
             k |-> entries[g.nodes[kept[i] + 1]].kanji,
             yomi |-> first(entries[g.nodes[kept[i] + 1]].onyomi),
             level |-> level_table(entries[g.nodes[kept[i] + 1]].kanji)]]

\* A sorted sequence with x put after the items that are not greater.
RECURSIVE place(_, _)
place(sorted, x) ==
    IF Len(sorted) = 0 THEN <<x>>
    ELSE IF cmp(x.yomi, sorted[1].yomi) = "Less" THEN <<x>> \o sorted
    ELSE <<sorted[1]>> \o place(Tail(sorted), x)

\* Itertools::sorted_by(|a, b| a.2.cmp(&b.2)): a stable sort.
RECURSIVE sorted_by(_)
sorted_by(items) ==
    IF Len(items) = 0 THEN <<>>
    ELSE place(sorted_by(SubSeq(items, 1, Len(items) - 1)), items[Len(items)])

\* Itertools::group_by(|pair| pair.2): the runs of items of one key.
RECURSIVE group_by(_)
group_by(items) ==
    IF Len(items) = 0 THEN <<>>
    ELSE LET n == CHOOSE m \in 1..Len(items) :
                    /\ \A i \in 1..m : items[i].yomi = items[1].yomi
                    /\ m < Len(items) => items[m + 1].yomi # items[1].yomi
         IN  <<SubSeq(items, 1, n)>> \o group_by(SubSeq(items, n + 1, Len(items)))

\* The lines with_groups pushes for one group.
group_lines(chosen, g) ==
    IF Len(g[1].yomi) > 0 /\ Len(g) > 1
    THEN <<Text("blank", <<>>), Text("subgraph cluster_", g[1].yomi),
           Text("label=", g[1].yomi), Text("style=dashed;", <<>>),
           Text("color=brown;", <<>>), Text("blank", <<>>)>>
         \o [i \in 1..Len(g) |->
                NodeStmt("node;", 2, g[i].kix, g[i].k, g[i].level, shape(chosen, g[i].k))]
         \o <<Text("}", <<>>), Text("blank", <<>>)>>
    ELSE [i \in 1..Len(g) |->
                NodeStmt("node", 1, g[i].kix, g[i].k, g[i].level, shape(chosen, g[i].k))]

RECURSIVE concat(_)
concat(ss) == IF Len(ss) = 0 THEN <<>> ELSE ss[1] \o concat(Tail(ss))

\* DB::with_groups(&chosen, &mut s, filtered): what it appends to s.
with_groups(chosen, items) ==
    LET groups == group_by(sorted_by(items))
    IN  concat([i \in 1..Len(groups) |-> group_lines(chosen, groups[i])])

\* DotMode::NoGroups: one statement for each item, the level left out.
no_groups(chosen, items) ==
    [i \in 1..Len(items) |->
        NodeStmt("plain", 1, items[i].kix, items[i].k, <<>>, shape(chosen, items[i].k))]

\* DB::dot_custom(dot_mode, chosen, graph).
dot_custom(dot_mode, chosen, g) ==
    <<Text("digraph {", <<>>)>>
        \o (IF dot_mode = "Groups" THEN with_groups(chosen, filtered(g))
            ELSE no_groups(chosen, filtered(g)))
        \o <<Text("blank", <<>>)>>
        \o [i \in 1..Len(g.edges) |->
                EdgeStmt(g.edges[i].source, g.edges[i].target, to_dot_attr(g.edges[i].weight))]
        \o <<Text("}", <<>>)>>

(***************************************************************************)
(* Rendering: a store of the kanji 1..DotKanji, each with no reading or    *)
(* with one of ko, kou, koku, goku, and all but the first with the parent  *)
(* 1; DB::new, and then dot_custom in either mode on the graph or on a     *)
(* part of it.                                                             *)
(***************************************************************************)
DotOnyomi == {<<>>, <<<<"ko">>>>, <<<<"ko", "u">>>>, <<<<"ko", "ku">>>>, <<<<"go", "ku">>>>}

InitDot ==
    /\ \E y \in [1..DotKanji -> DotOnyomi] :
        entries = [k \in 1..DotKanji |-> Entry(k, IF k = 1 THEN <<>> ELSE <<1>>, y[k])]
    /\ index = <<>>
    /\ graph = [nodes |-> <<>>, edges |-> <<>>]
    /\ built = FALSE
    /\ NoQuery /\ NoFile /\ NoCall /\ NoDot /\ NoProc
    /\ input = <<>>
    /\ output = [fn |-> "none", val |-> FALSE]

\* db.dot_custom(dot_mode, chosen, &graph), the graph being a filter_map of
\* db.graph; a run of the command renders once.
DotCustom ==
    /\ built
    /\ dot = <<>>
    /\ \E dot_mode \in {"Groups", "NoGroups"}, chosen \in SUBSET {1},
          indices \in SUBSET (0..(node_count(graph) - 1)) :
            dot' = dot_custom(dot_mode, chosen, filter_map(graph, indices))
    /\ UNCHANGED <<entries, index, graph, built, query, stack, status, result, file, wrote,
                   call, proc, input, output>>

NextDot == New \/ DotCustom

SpecDot == InitDot /\ [][NextDot]_vars

(***************************************************************************)
(* C13: with_groups emits the node statements in ascending order of the    *)
(* first onyomi of their nodes, and the nodes without a reading after all  *)
(* the nodes with one.                                                     *)
(***************************************************************************)
\* The node statements of a grouped rendering, in the order of the text.
NodeLines == SelectSeq(dot, LAMBDA l : l.kind \in {"node", "node;"})

\* The first onyomi of the node of a statement, when it has one.
HasReading(l) == Len(entries[l.label[1]].onyomi) > 0

ReadingOf(l) == entries[l.label[1]].onyomi[1]

\* The order of strings: a is b, or they differ first at a place where a
\* ends or holds the lesser character.
StringLe(a, b) ==
    \/ a = b
    \/ \E i \in 1..(Len(a) + 1) :
        /\ \A j \in 1..(i - 1) : j <= Len(b) /\ a[j] = b[j]
        /\ i <= Len(b)
        /\ i <= Len(a) => CodePoint(a[i]) < CodePoint(b[i])

\* No statement of a lesser reading follows one of a greater reading.
AscendingReadings ==
    \A i, j \in 1..Len(NodeLines) :
        (i < j /\ HasReading(NodeLines[i]) /\ HasReading(NodeLines[j])) =>
            StringLe(ReadingOf(NodeLines[i]), ReadingOf(NodeLines[j]))

C13_NoReadingLast ==
    /\ AscendingReadings
    /\ \A i, j \in 1..Len(NodeLines) :
        (i < j /\ ~HasReading(NodeLines[i])) => ~HasReading(NodeLines[j])

\* C13 as amended: ascending order of the first onyomi, and the nodes
\* without a reading before all the nodes with one.
C13_NoReadingFirst ==
    /\ AscendingReadings
    /\ \A i, j \in 1..Len(NodeLines) :
        (i < j /\ ~HasReading(NodeLines[j])) => ~HasReading(NodeLines[i])

C13_Witness ==
    \E i, j, k \in 1..Len(NodeLines) :
        /\ ~HasReading(NodeLines[i])
        /\ HasReading(NodeLines[j]) /\ HasReading(NodeLines[k])
        /\ ReadingOf(NodeLines[j]) # ReadingOf(NodeLines[k])
        /\ NodeLines[j].src > NodeLines[k].src /\ j < k

(***************************************************************************)
(* main.rs: graph_dot, the command `kin graph`, and the `dot` process it   *)
(* spawns with its stdin piped.  proc is                                   *)
(*   pc      where graph_dot is: "open_db", "spawn", "dot", "take",        *)
(*           "writeln", "end_of_block", "wait", "done", or "died";         *)
(*   ret     what graph_dot returned;                                      *)
(*   handle  who holds the write end of the pipe: "child" (child.stdin),   *)
(*           "local" (the variable stdin of the block), "closed";          *)
(*   sent    the lines of the text written to the pipe;                    *)
(*   pipe    the lines in the pipe that the child has not read;            *)
(*   child   "none", "running" or "exited".                                *)
(* `dot` reads its input to the end, writes the image and exits; it may    *)
(* also fail and exit at any time.                                         *)
(***************************************************************************)
\* An early return with the error res: the locals are dropped, and with
\* them the write end of the pipe, if there is one.
return_err(p, res) ==
    [p EXCEPT !.pc = "done", !.ret = res,
              !.handle = IF p.handle = "none" THEN "none" ELSE "closed"]

\* The end of the block with stdin still held.
end_of_block_keeps_stdin(p) == [p EXCEPT !.pc = "wait"]

\* The end of the block of `let mut stdin`: stdin is dropped, which closes
\* the write end of the pipe.
end_of_block(p) == [p EXCEPT !.pc = "wait", !.handle = "closed"]

InitPipe ==
    /\ NoDB /\ NoQuery /\ NoDot /\ NoProc
    /\ input = <<>>
    /\ output = [fn |-> "none", val |-> FALSE]
    /\ \/ NoFile /\ NoCall
       \/ \E es \in EntryStores :
            /\ file = written(es)
            /\ wrote = [n |-> 1, entries |-> es]
            /\ call = Called("write_db", "Ok", EmptyDB, NoPrompt)

\* let db = kn_core::open_db(path)?;
GdOpenDb ==
    /\ proc.pc = "open_db"
    /\ \E r \in open_db(wrote.n > 0, file) :
        /\ call' = r
        /\ IF r.res = "Ok"
           THEN /\ entries' = r.db.entries
                /\ index' = r.db.index
                /\ graph' = r.db.graph
                /\ built' = TRUE
                /\ proc' = [proc EXCEPT !.pc = "spawn"]
           ELSE /\ proc' = return_err(proc, r.res)
                /\ UNCHANGED <<entries, index, graph, built>>
    /\ UNCHANGED <<query, stack, status, result, file, wrote, dot, input, output>>

\* Command::new("dot")...stdin(Stdio::piped())...spawn()?: the child runs
\* and child.stdin holds the write end of the pipe, or there is no child.
GdSpawn ==
    /\ proc.pc = "spawn"
    /\ \/ proc' = [proc EXCEPT !.pc = "dot", !.handle = "child", !.child = "running"]
       \/ proc' = return_err(proc, "Io")
    /\ UNCHANGED <<entries, index, graph, built, query, stack, status, result, file, wrote,
                   call, dot, input, output>>

\* let dot = ...: db.dot() when no kanji is given, else dot_custom in groups
\* on the filtered graph, which is a filter_map of db.graph.
GdDot ==
    /\ proc.pc = "dot"
    /\ \/ dot' = dot_custom("NoGroups", {}, graph)
       \/ \E chosen \in SUBSET {1}, indices \in SUBSET (0..(node_count(graph) - 1)) :
            dot' = dot_custom("Groups", chosen, filter_map(graph, indices))
    /\ proc' = [proc EXCEPT !.pc = "take"]
    /\ UNCHANGED <<entries, index, graph, built, query, stack, status, result, file, wrote,
                   call, input, output>>

\* filtered_graph runs out of stack on a store with a cycle of parents: the
\* process dies, and what it held open is closed.
GdOverflow ==
    /\ proc.pc = "dot"
    /\ \E k \in DOMAIN entries : k \in Ancestors(k)
    /\ proc' = [proc EXCEPT !.pc = "died", !.handle = "closed"]
    /\ UNCHANGED <<entries, index, graph, built, query, stack, status, result, file, wrote,
                   call, dot, input, output>>

\* let mut stdin = child.stdin.take().unwrap();
GdTake ==
    /\ proc.pc = "take"
    /\ proc' = [proc EXCEPT !.pc = "writeln", !.handle = "local"]
    /\ UNCHANGED <<entries, index, graph, built, query, stack, status, result, file, wrote,
                   call, dot, input, output>>

\* writeln!(stdin, "{}", dot)?: line after line goes into the pipe while it
\* has room; the write fails once the child has exited.
GdWriteln ==
    /\ proc.pc = "writeln"
    /\ \/ /\ proc.child = "exited"
          /\ proc' = return_err(proc, "Io")
       \/ /\ proc.child = "running" /\ proc.sent < Len(dot) /\ proc.pipe < PipeCap
          /\ proc' = [proc EXCEPT !.sent = @ + 1, !.pipe = @ + 1]
       \/ /\ proc.child = "running" /\ proc.sent = Len(dot)
          /\ proc' = [proc EXCEPT !.pc = "end_of_block"]
    /\ UNCHANGED <<entries, index, graph, built, query, stack, status, result, file, wrote,
                   call, dot, input, output>>

\* The closing brace of the block.
GdEndOfBlock ==
    /\ proc.pc = "end_of_block"
    /\ proc' = end_of_block(proc)
    /\ UNCHANGED <<entries, index, graph, built, query, stack, status, result, file, wrote,
                   call, dot, input, output>>

\* match child.wait(): returns when the child has exited.
GdWait ==
    /\ proc.pc = "wait"
    /\ proc.child = "exited"
    /\ proc' = [proc EXCEPT !.pc = "done", !.ret = "Ok"]
    /\ UNCHANGED <<entries, index, graph, built, query, stack, status, result, file, wrote,
                   call, dot, input, output>>

\* The child reads a line of its input.
ChildRead ==
    /\ proc.child = "running" /\ proc.pipe > 0
    /\ proc' = [proc EXCEPT !.pipe = @ - 1]
    /\ UNCHANGED <<entries, index, graph, built, query, stack, status, result, file, wrote,
                   call, dot, input, output>>

\* The child reads the end of its input: the pipe is empty and its write
\* end is closed.  It writes the image and exits.
ChildEof ==
    /\ proc.child = "running" /\ proc.pipe = 0 /\ proc.handle = "closed"
    /\ proc' = [proc EXCEPT !.child = "exited"]
    /\ UNCHANGED <<entries, index, graph, built, query, stack, status, result, file, wrote,
                   call, dot, input, output>>

\* The child fails and exits; what is in the pipe is lost.
ChildFail ==
    /\ proc.child = "running"
    /\ proc' = [proc EXCEPT !.child = "exited", !.pipe = 0]
    /\ UNCHANGED <<entries, index, graph, built, query, stack, status, result, file, wrote,
                   call, dot, input, output>>

NextPipe ==
    \/ GdOpenDb \/ GdSpawn \/ GdDot \/ GdOverflow \/ GdTake \/ GdWriteln \/ GdEndOfBlock
    \/ GdWait \/ ChildRead \/ ChildEof \/ ChildFail

SpecPipe == InitPipe /\ [][NextPipe]_vars

(***************************************************************************)
(* C14: whenever graph_dot is at child.wait(), the text was written to the *)
(* stdin of the child and the write end of the pipe is closed: the parent  *)
(* never waits for a child that is blocked reading for more input.         *)
(***************************************************************************)
\* The child waits for input that does not come while its end is not told.
ChildBlockedReading ==
    proc.child = "running" /\ proc.pipe = 0 /\ proc.handle # "closed"

C14_ClosedBeforeWait ==
    proc.pc = "wait" =>
        /\ proc.handle = "closed"
        /\ proc.sent = Len(dot) /\ Len(dot) > 0
        /\ ~ChildBlockedReading

\* graph_dot waits while the child still reads what was written.
C14_Witness ==
    proc.pc = "wait" /\ proc.child = "running" /\ proc.pipe > 0

====
